---- MODULE Spec2Model ----
(***************************************************************************)
(* Model of the SRT subtitle parser (src/srt_parser.py, parse_srt) and of  *)
(* the two ingestion paths that persist its result (src/app.py add_entry,  *)
(* src/fetch_from_api.py fetch_movie_subtitles).                           *)
(*                                                                         *)
(* A Python str is a sequence of one-character strings.  Every string      *)
(* operation of the parser (replace, strip, split, join, re.search,        *)
(* re.sub) is an operator working character by character.                  *)
(***************************************************************************)
EXTENDS Integers, Sequences, FiniteSets, TLC

VARIABLES
    pc,            \* position inside parse_srt
    document,      \* the document as written with LF line endings
    eol,           \* the line-ending convention the input is delivered in
    srt_content,   \* parse_srt's parameter / local of the same name
    blocks,        \* local: list of blocks
    bi,            \* index (1-based) of the next block of the for loop
    parsed_subs,   \* local: list of entries built so far
    origin,        \* history: origin[k] = index of the block parsed_subs[k] came from
    movies,        \* committed Movie rows
    subtitles,     \* committed Subtitle rows
    next_id,       \* next primary key of each table
    last,          \* history: the last ingestion request and its outcome
    settings,      \* committed AppSettings rows: key -> value
    fpc,           \* position inside fetch_all_movies
    current_year,  \* local of fetch_all_movies
    current_cycle, \* local of fetch_all_movies
    years_left,    \* the next year the range iterator of line 161 yields
    year,          \* local: bound by the year loop and again by the movie loop
    movies_to_process, \* local: how many movies of the slice are still to come
    downloads_count,   \* local of fetch_all_movies
    stopped,       \* history: why the run left its loops early ("no" if it did not)
    visited        \* history: the years whose movies were asked for

vars == <<pc, document, eol, srt_content, blocks, bi, parsed_subs, origin,
          movies, subtitles, next_id, last,
          settings, fpc, current_year, current_cycle, years_left, year,
          movies_to_process, downloads_count, stopped, visited>>

parserVars == <<pc, document, eol, srt_content, blocks, bi, parsed_subs, origin>>
dbVars == <<movies, subtitles, next_id, last>>
fetchVars == <<settings, fpc, current_year, current_cycle, years_left, year,
               movies_to_process, downloads_count, stopped, visited>>

-----------------------------------------------------------------------------
(* Bounds of the model *)

MaxLines == 3      \* lines of a free-form document
MaxBlocks == 3     \* blocks of a multi-block document
MaxMovies == 2     \* Movie rows the database may hold
MaxText == 5       \* characters a text line of a dash document may have
MaxYears == 3      \* years from start_year up to the year of the run
MaxCycle == 2      \* stored fetch_cycle up to which runs are started

-----------------------------------------------------------------------------
(* Python string primitives *)

\* str.isspace of one character (the whitespace str.strip and \s recognise)
IsSpace(c) == c \in {" ", "\t", "\n", "\r", "\f"}

\* \d of one character
IsDigit(c) == c \in {"0", "1", "2", "3", "4", "5", "6", "7", "8", "9"}

\* s[i:] with a 1-based i
Tail_(s, i) == SubSeq(s, i, Len(s))

\* s.startswith(p, i-1)
StartsWithAt(s, p, i) ==
    /\ i + Len(p) - 1 <= Len(s)
    /\ \A k \in 1..Len(p) : s[i + k - 1] = p[k]

\* the least and the greatest element of a non-empty set of positions
Min(S) == CHOOSE i \in S : \A j \in S : i <= j
Max(S) == CHOOSE i \in S : \A j \in S : i >= j

\* s.find(p, i-1) + 1: the first position >= i where p occurs in s, 0 if none
Find(s, p, i) ==
    LET occ == {j \in i..(Len(s) - Len(p) + 1) : StartsWithAt(s, p, j)}
    IN IF occ = {} THEN 0 ELSE Min(occ)

RECURSIVE replace(_, _, _)
\* str.replace(old, new), old non-empty: leftmost, non-overlapping occurrences
replace(s, old, new) ==
    LET i == Find(s, old, 1)
    IN IF i = 0 THEN s
       ELSE SubSeq(s, 1, i - 1) \o new \o replace(Tail_(s, i + Len(old)), old, new)

\* str.strip(): from the first to the last character that is not whitespace
strip(s) ==
    LET keep == {i \in 1..Len(s) : ~IsSpace(s[i])}
    IN IF keep = {} THEN <<>> ELSE SubSeq(s, Min(keep), Max(keep))

RECURSIVE split(_, _)
\* str.split(sep), sep non-empty: always at least one piece, empty pieces kept
split(s, sep) ==
    LET i == Find(s, sep, 1)
    IN IF i = 0 THEN <<s>>
       ELSE <<SubSeq(s, 1, i - 1)>> \o split(Tail_(s, i + Len(sep)), sep)

RECURSIVE join(_, _)
\* sep.join(parts)
join(sep, parts) ==
    IF parts = <<>> THEN <<>>
    ELSE IF Len(parts) = 1 THEN parts[1]
         ELSE parts[1] \o sep \o join(sep, Tail(parts))

-----------------------------------------------------------------------------
(* The two regular expressions *)

\* \d{2}:\d{2}:\d{2}[,.]\d{3} matched at position i
ClockAt(s, i) ==
    /\ i + 11 <= Len(s)
    /\ IsDigit(s[i]) /\ IsDigit(s[i + 1]) /\ s[i + 2] = ":"
    /\ IsDigit(s[i + 3]) /\ IsDigit(s[i + 4]) /\ s[i + 5] = ":"
    /\ IsDigit(s[i + 6]) /\ IsDigit(s[i + 7]) /\ s[i + 8] \in {",", "."}
    /\ IsDigit(s[i + 9]) /\ IsDigit(s[i + 10]) /\ IsDigit(s[i + 11])

\* \s* from position i: the position after the run of whitespace
SkipSpace(s, i) ==
    LET rest == {j \in i..Len(s) : ~IsSpace(s[j])}
    IN IF rest = {} THEN Len(s) + 1 ELSE Min(rest)

\* the value of a failed search
NoMatch == [found |-> FALSE, group1 |-> <<>>, group2 |-> <<>>]

\* time_pattern matched with its first character at position i
MatchAt(s, i) ==
    IF ~ClockAt(s, i) THEN NoMatch
    ELSE LET a == SkipSpace(s, i + 12)
         IN IF ~StartsWithAt(s, <<"-", "-", ">">>, a) THEN NoMatch
            ELSE LET b == SkipSpace(s, a + 3)
                 IN IF ~ClockAt(s, b) THEN NoMatch
                    ELSE [found |-> TRUE,
                          group1 |-> SubSeq(s, i, i + 11),
                          group2 |-> SubSeq(s, b, b + 11)]

\* time_pattern.search(line): the leftmost match anywhere in the line
time_pattern_search(line) ==
    LET at == {i \in 1..Len(line) : MatchAt(line, i).found}
    IN IF at = {} THEN NoMatch ELSE MatchAt(line, Min(at))

\* [^>]+ from position i, greedy: the position after the run of non-'>'
RunNotGt(s, i) ==
    LET gt == {j \in i..Len(s) : s[j] = ">"}
    IN IF gt = {} THEN Len(s) + 1 ELSE Min(gt)

\* <[^>]+> matches with its '<' at position i
TagAt(s, i) == s[i] = "<" /\ RunNotGt(s, i + 1) > i + 1 /\ RunNotGt(s, i + 1) <= Len(s)

RECURSIVE sub_tags(_)
\* re.sub(r'<[^>]+>', '', s): leftmost matches, left to right
sub_tags(s) ==
    LET at == {i \in 1..Len(s) : TagAt(s, i)}
    IN IF at = {} THEN s
       ELSE SubSeq(s, 1, Min(at) - 1) \o sub_tags(Tail_(s, RunNotGt(s, Min(at) + 1) + 1))

-----------------------------------------------------------------------------
(* parse_srt, statement by statement *)

LF == <<"\n">>
CR == <<"\r">>
CRLF == <<"\r", "\n">>

\* mutant: the lone '\r' is not replaced
normalize_crlf_only(s) == replace(s, CRLF, LF)

\* line 9: srt_content.replace('\r\n', '\n').replace('\r', '\n')
normalize_line_endings(s) == replace(replace(s, CRLF, LF), CR, LF)

\* line 12: srt_content.strip().split('\n\n')
split_blocks(s) == split(strip(s), LF \o LF)

\* line 21: block.strip().split('\n')
block_lines(block) == split(strip(block), LF)

\* mutant: the gate lets two-line blocks through
two_lines_enough(lines) == Len(lines) >= 2

\* line 22: the line-count gate, len(lines) >= 3
enough_lines(lines) == Len(lines) >= 3

RECURSIVE scanFrom(_, _)
scanFrom(lines, i) ==
    IF i > Len(lines) THEN [time_match |-> NoMatch, text_lines |-> <<>>]
    ELSE LET match == time_pattern_search(lines[i])
         IN IF match.found
            THEN [time_match |-> match, text_lines |-> Tail_(lines, i + 1)]
            ELSE scanFrom(lines, i + 1)

RECURSIVE scanFromKeeping(_, _)
scanFromKeeping(lines, i) ==
    IF i > Len(lines) THEN [time_match |-> NoMatch, text_lines |-> <<>>]
    ELSE LET match == time_pattern_search(lines[i])
         IN IF match.found
            THEN [time_match |-> match, text_lines |-> Tail_(lines, i)]
            ELSE scanFromKeeping(lines, i + 1)

\* mutant: the text starts at the timestamp line itself (lines[i:])
scan_lines_keeping(lines) == scanFromKeeping(lines, 1)

\* lines 28-37: the scan for the timestamp line; time_match and text_lines after it
scan_lines(lines) == scanFrom(lines, 1)

\* mutant: the result of the scan is used unchecked
unchecked(sc) == TRUE

\* line 39: if time_match and text_lines
has_match_and_text(sc) == sc.time_match.found /\ sc.text_lines # <<>>

\* what match.group raises on None
AttributeError == <<"AttributeError">>

\* time_match.group(k)
group(m, k) ==
    IF ~m.found THEN AttributeError ELSE IF k = 1 THEN m.group1 ELSE m.group2

\* mutant: the separator is left as captured
standardize_not(t) == t

\* lines 40-41: .replace('.', ',')
standardize(t) == IF t = AttributeError THEN t ELSE replace(t, <<".">>, <<",">>)

\* line 44: " ".join(text_lines)
join_text(text_lines) == join(<<" ">>, text_lines)

\* line 46: re.sub(r'<[^>]+>', '', full_text).strip()
remove_tags(full_text) == strip(sub_tags(full_text))

\* mutant: the final strip is missing
remove_dashes_no_strip(clean_text) == replace(clean_text, <<"-", " ">>, <<>>)

\* mutant: every dash is removed, not only a dash followed by a space
remove_every_dash(clean_text) == strip(replace(clean_text, <<"-">>, <<>>))

\* line 49: clean_text.replace('- ', '').strip()
remove_first_dash(clean_text) ==
    LET i == Find(clean_text, <<"-", " ">>, 1)
    IN strip(IF i = 0 THEN clean_text
             ELSE SubSeq(clean_text, 1, i - 1) \o Tail_(clean_text, i + 2))

remove_dashes(clean_text) == strip(replace(clean_text, <<"-", " ">>, <<>>))

\* lines 43-49
clean(text_lines) == remove_dashes(remove_tags(join_text(text_lines)))

\* lines 21-56: one iteration of the for loop: the entries it appends (none or
\* one), or the exception it raises
parse_block(block) ==
    LET lines == block_lines(block)
    IN IF enough_lines(lines)
       THEN LET sc == scan_lines(lines)
            IN IF has_match_and_text(sc)
               THEN LET start == standardize(group(sc.time_match, 1))
                        end == standardize(group(sc.time_match, 2))
                        clean_text == clean(sc.text_lines)
                    IN IF start = AttributeError \/ end = AttributeError
                       THEN [raised |-> TRUE, entries |-> <<>>]
                       ELSE IF clean_text # <<>>
                            THEN [raised |-> FALSE,
                                  entries |-> <<[start |-> start, end |-> end,
                                                 text |-> clean_text]>>]
                            ELSE [raised |-> FALSE, entries |-> <<>>]
               ELSE [raised |-> FALSE, entries |-> <<>>]
       ELSE [raised |-> FALSE, entries |-> <<>>]

\* mutant: the entry is inserted at the front
list_prepend(l, xs) == xs \o l

\* line 52: parsed_subs.append(...)
list_append(l, xs) == l \o xs

RECURSIVE parse_blocks(_)
parse_blocks(bs) ==
    IF bs = <<>> THEN <<>>
    ELSE list_append(parse_block(bs[1]).entries, parse_blocks(Tail(bs)))

\* lines 3-58: parse_srt as a function of its argument
parse_srt(s) == parse_blocks(split_blocks(normalize_line_endings(s)))

-----------------------------------------------------------------------------
(* Inputs: the documents parse_srt is run on *)

\* HH:MM:SS<sep>mmm with the seconds s1 s2
Clock(s1, s2, sep) == <<"0", "0", ":", "0", "0", ":", s1, s2, sep, "0", "0", "0">>

IndexLine == <<"1">>
TimeComma == Clock("0", "1", ",") \o <<" ", "-", "-", ">", " ">> \o Clock("0", "2", ",")
TimeMixed == Clock("0", "5", ".") \o <<"-", "-", ">">> \o Clock("0", "4", ",")
TimeDots == Clock("0", "3", ".") \o <<"\t", "-", "-", ">", " ", " ">> \o Clock("0", "9", ".")
HiThere == <<"H", "i", " ", "t", "h", "e", "r", "e">>
TagOnly == <<"<", "i", ">", " ", "<", "/", "i", ">">>
Dashed == <<"<", "b", ">", "-", " ", " ", "H", "i", "-", " ", "x">>
TrailDash == <<"H", "i", "-">>
Blank == <<" ">>
Bye == <<"B", "y", "e">>

\* the lines a free-form document is made of (the empty line makes "\n\n")
LineVocab ==
    {IndexLine, TimeComma, TimeMixed, HiThere, TagOnly, Dashed, TrailDash, Blank, <<>>}

SeqsUpTo(S, n) == UNION {[1..k -> S] : k \in 0..n}

\* every document of at most MaxLines lines of the vocabulary, LF between lines
FreeDocs == {join(LF, ls) : ls \in SeqsUpTo(LineVocab, MaxLines)}

\* well-formed and malformed blocks of a multi-block document
BlockVocab ==
    { join(LF, <<IndexLine, TimeComma, HiThere>>),
      join(LF, <<TimeDots, TrailDash, Bye>>),
      join(LF, <<IndexLine, TimeMixed, Dashed, TimeComma>>),
      join(LF, <<IndexLine, HiThere, Bye>>),
      join(LF, <<IndexLine, TimeComma, TagOnly>>) }

\* what separates two blocks: one blank line, or two
BlockSeps == {LF \o LF, LF \o LF \o LF}

BlockDocs ==
    {join(sep, bs) : sep \in BlockSeps, bs \in SeqsUpTo(BlockVocab, MaxBlocks)}

Eols == {"LF", "CRLF", "CR", "MIXED"}

RECURSIVE mixFrom(_, _)
\* the k-th line break written as CRLF, CR, LF in turn
mixFrom(s, k) ==
    LET i == Find(s, LF, 1)
    IN IF i = 0 THEN s
       ELSE SubSeq(s, 1, i - 1)
            \o (CASE k % 3 = 0 -> CRLF [] k % 3 = 1 -> CR [] OTHER -> LF)
            \o mixFrom(Tail_(s, i + 1), k + 1)

\* the LF document d as a file written with the convention e
WithEol(d, e) ==
    CASE e = "LF" -> d
      [] e = "CRLF" -> replace(d, LF, CRLF)
      [] e = "CR" -> replace(d, LF, CR)
      [] OTHER -> mixFrom(d, 0)

-----------------------------------------------------------------------------
(* parse_srt as a state machine *)

\* the conventions subtitle files are normally written in
FileEols == {"LF", "CRLF"}

InitParser(docs, eols) ==
    /\ document \in docs
    /\ eol \in eols
    /\ srt_content = WithEol(document, eol)
    /\ pc = "start"
    /\ blocks = <<>>
    /\ bi = 0
    /\ parsed_subs = <<>>
    /\ origin = <<>>

\* line 9
Normalize ==
    /\ pc = "start"
    /\ srt_content' = normalize_line_endings(srt_content)
    /\ pc' = "split"
    /\ UNCHANGED <<document, eol, blocks, bi, parsed_subs, origin>>

\* lines 12-14
SplitBlocks ==
    /\ pc = "split"
    /\ blocks' = split_blocks(srt_content)
    /\ parsed_subs' = <<>>
    /\ origin' = <<>>
    /\ bi' = 1
    /\ pc' = "loop"
    /\ UNCHANGED <<document, eol, srt_content>>

\* lines 20-56: one iteration of the for loop
LoopBlock ==
    /\ pc = "loop"
    /\ bi <= Len(blocks)
    /\ LET r == parse_block(blocks[bi])
       IN IF r.raised
          THEN /\ pc' = "raised"
               /\ UNCHANGED <<parsed_subs, origin, bi>>
          ELSE /\ parsed_subs' = list_append(parsed_subs, r.entries)
               /\ origin' = list_append(origin, [k \in 1..Len(r.entries) |-> bi])
               /\ bi' = bi + 1
               /\ pc' = "loop"
    /\ UNCHANGED <<document, eol, srt_content, blocks>>

\* line 58
Return ==
    /\ pc = "loop"
    /\ bi > Len(blocks)
    /\ pc' = "done"
    /\ UNCHANGED <<document, eol, srt_content, blocks, bi, parsed_subs, origin>>

NextParser == Normalize \/ SplitBlocks \/ LoopBlock \/ Return

NoDb ==
    /\ movies = {}
    /\ subtitles = {}
    /\ next_id = [movie |-> 1, subtitle |-> 1]
    /\ last = [op |-> "none", parsed |-> FALSE, content |-> <<>>, outcome |-> "none"]
    /\ settings = <<>>
    /\ fpc = "idle"
    /\ current_year = 0
    /\ current_cycle = 0
    /\ years_left = 0
    /\ year = 0
    /\ movies_to_process = 0
    /\ downloads_count = 0
    /\ stopped = "no"
    /\ visited = {}

\* parse_srt run on a free-form document
Init == InitParser(FreeDocs, FileEols) /\ NoDb

Next == NextParser /\ UNCHANGED <<dbVars, fetchVars>>

Spec == Init /\ [][Next]_vars

\* parse_srt run on a multi-block document, in every line-ending convention
InitBlocks == InitParser(BlockDocs, Eols) /\ NoDb

SpecBlocks == InitBlocks /\ [][Next]_vars

\* a clock value as it may be written: an extra leading hour digit or none,
\* seconds of two digits or one, a separator, a fraction of 2, 3 or 4 digits
ClockForm(hx, sec, sep, fx) ==
    hx \o <<"0", "0", ":", "0", "0", ":">> \o sec \o <<sep, "0", "0">> \o fx

ClockForms ==
    {ClockForm(hx, sec, sep, fx) :
        hx \in {<<>>, <<"1">>}, sec \in {<<"0", "1">>, <<"1">>},
        sep \in {",", ".", ":"}, fx \in {<<>>, <<"0">>, <<"0", "0">>}}

Arrows == {<<" ", "-", "-", ">", " ">>, <<"-", "-", ">">>, <<"-", ">">>}

\* one block: an index, a line of two clock values and an arrow, a text line
TimeDocs ==
    {join(LF, <<IndexLine, c1 \o arrow \o c2, HiThere>>) :
        c1 \in ClockForms, arrow \in Arrows, c2 \in ClockForms}

\* parse_srt run on a block whose second line is a candidate timestamp line
InitTime == InitParser(TimeDocs, {"LF"}) /\ NoDb

SpecTime == InitTime /\ [][Next]_vars

TextChars == {"-", " ", "x"}

\* one block: an index, a timestamp line, a text line of dashes and spaces
DashDocs ==
    {join(LF, <<IndexLine, TimeComma, t>>) :
        t \in SeqsUpTo(TextChars, MaxText) \ {<<>>}}

\* parse_srt run on a block whose text is made of dashes, spaces and letters
InitDash == InitParser(DashDocs, {"LF"}) /\ NoDb

SpecDash == InitDash /\ [][Next]_vars

-----------------------------------------------------------------------------
(* The two ingestion paths and the database *)

None == "None"

\* what TMDB knows: (title, year, imdb_id)
Catalogue ==
    { [title |-> "Up", year |-> 2009, imdb_id |-> "tt1049413"],
      [title |-> "Heat", year |-> 1995, imdb_id |-> "tt0113277"],
      [title |-> "Heat", year |-> 1986, imdb_id |-> None] }

\* search_movie_metadata found nothing
NoResult == [title |-> None, year |-> 0, imdb_id |-> None]

\* what a user types into the upload form
UserTitles == {"Up", "up", "Heat"}
UserYears == {1995, 2009}

\* func.lower
lower(t) == IF t = "Up" THEN "up" ELSE IF t = "Heat" THEN "heat" ELSE t

\* the subtitle files uploaded or downloaded: empty, a two-line block, a
\* block without a timestamp, one good block, two good blocks
Contents ==
    { <<>>,
      join(LF, <<TimeComma, HiThere>>),
      join(LF, <<IndexLine, HiThere, Bye>>),
      join(LF, <<IndexLine, TimeComma, HiThere>>),
      join(LF \o LF, <<join(LF, <<IndexLine, TimeComma, HiThere>>),
                      join(LF, <<IndexLine, TimeMixed, Bye>>)>>) }

\* parse_srt of each of these files
Parsed == [c \in Contents |-> parse_srt(c)]

\* what a request did: the handler, whether it got as far as calling parse_srt
\* and on which file, and how it ended
Outcome(op, called, content, outcome) ==
    [op |-> op, parsed |-> called, content |-> content, outcome |-> outcome]

\* the database refuses a Movie row whose imdb_id is already there (unique=True)
UniqueViolation(imdb_id) == imdb_id # None /\ \E m \in movies : m.imdb_id = imdb_id

MovieRow(title, movie_year, imdb_id) ==
    [id |-> next_id.movie, title |-> title, year |-> movie_year, imdb_id |-> imdb_id]

\* the Subtitle rows built from the parsed entries, linked to movie_id
SubtitleRows(parsed, movie_id) ==
    { [id |-> next_id.subtitle + k - 1,
       movie_id |-> movie_id,
       text |-> parsed[k].text,
       start_time |-> parsed[k].start,
       end_time |-> parsed[k].end] : k \in 1..Len(parsed) }

\* mutant: an empty parse result is not rejected
never_rejects(parsed) == FALSE

\* app.py line 193: if not parsed_subs
add_entry_rejects(parsed) == parsed = <<>>

\* fetch_from_api.py line 90: if not parsed_subtitles: return False
fetch_skips(parsed_subtitles) == parsed_subtitles = <<>>

\* The two commits of an ingestion (app.py 197-223, fetch_from_api.py 92-112):
\* the Movie row is committed first, the Subtitle rows second; a failed commit
\* raises, the except branch rolls the session back, and what an earlier commit
\* stored stays stored.
Persist(op, title, movie_year, imdb_id, content, parsed, fail1, fail2) ==
    IF fail1 \/ UniqueViolation(imdb_id)
    THEN /\ last' = Outcome(op, TRUE, content, "rolled back")
         /\ UNCHANGED <<movies, subtitles, next_id>>
    ELSE /\ movies' = movies \cup {MovieRow(title, movie_year, imdb_id)}
         /\ IF fail2
            THEN /\ last' = Outcome(op, TRUE, content, "rolled back")
                 /\ next_id' = [next_id EXCEPT !.movie = @ + 1]
                 /\ UNCHANGED subtitles
            ELSE /\ last' = Outcome(op, TRUE, content, "imported")
                 /\ subtitles' = subtitles \cup SubtitleRows(parsed, next_id.movie)
                 /\ next_id' = [movie |-> next_id.movie + 1,
                                subtitle |-> next_id.subtitle + Len(parsed)]

\* app.py lines 128-223: POST /add.  (Requests are taken while the database
\* holds fewer than MaxMovies Movie rows; that is the bound of the model.)
add_entry ==
    \E user_title \in UserTitles, user_year \in UserYears,
       verified_data \in Catalogue \cup {NoResult},
       is_srt \in BOOLEAN, content \in Contents, fail1 \in BOOLEAN, fail2 \in BOOLEAN :
       LET movie_title == IF verified_data # NoResult THEN verified_data.title ELSE user_title
           movie_year == IF verified_data # NoResult THEN verified_data.year ELSE user_year
           imdb_id == IF verified_data # NoResult THEN verified_data.imdb_id ELSE None
           existing_movie == {m \in movies : lower(m.title) = lower(movie_title)
                                             /\ m.year = movie_year}
           parsed == Parsed[content]
       IN /\ Cardinality(movies) < MaxMovies
          /\ IF existing_movie # {}
             THEN /\ last' = Outcome("add_entry", FALSE, <<>>, "exists")
                  /\ UNCHANGED <<movies, subtitles, next_id>>
             ELSE IF ~is_srt
             THEN /\ last' = Outcome("add_entry", FALSE, <<>>, "not srt")
                  /\ UNCHANGED <<movies, subtitles, next_id>>
             ELSE IF add_entry_rejects(parsed)
             THEN /\ last' = Outcome("add_entry", TRUE, content, "rejected")
                  /\ UNCHANGED <<movies, subtitles, next_id>>
             ELSE Persist("add_entry", movie_title, movie_year, imdb_id, content,
                          parsed, fail1, fail2)
          /\ UNCHANGED <<parserVars, fetchVars>>

\* fetch_from_api.py lines 57-112
fetch_movie_subtitles ==
    \E movie \in {m \in Catalogue : m.imdb_id # None},
       api \in {"ok", "no file", "error"},
       content \in Contents, fail1 \in BOOLEAN, fail2 \in BOOLEAN :
       LET existing_movie == {m \in movies : m.imdb_id = movie.imdb_id}
           parsed_subtitles == Parsed[content]
       IN /\ Cardinality(movies) < MaxMovies
          /\ IF existing_movie # {}
             THEN /\ last' = Outcome("fetch_movie_subtitles", FALSE, <<>>, "exists")
                  /\ UNCHANGED <<movies, subtitles, next_id>>
             ELSE IF api # "ok"
             THEN /\ last' = Outcome("fetch_movie_subtitles", FALSE, <<>>, api)
                  /\ UNCHANGED <<movies, subtitles, next_id>>
             ELSE IF fetch_skips(parsed_subtitles)
             THEN /\ last' = Outcome("fetch_movie_subtitles", TRUE, content, "skipped")
                  /\ UNCHANGED <<movies, subtitles, next_id>>
             ELSE Persist("fetch_movie_subtitles", movie.title, movie.year,
                          movie.imdb_id, content, parsed_subtitles, fail1, fail2)
          /\ UNCHANGED <<parserVars, fetchVars>>

InitIngest ==
    /\ NoDb
    /\ pc = "idle"
    /\ document = <<>>
    /\ eol = "LF"
    /\ srt_content = <<>>
    /\ blocks = <<>>
    /\ bi = 0
    /\ parsed_subs = <<>>
    /\ origin = <<>>

NextIngest == add_entry \/ fetch_movie_subtitles

SpecIngest == InitIngest /\ [][NextIngest]_vars

-----------------------------------------------------------------------------
(* The scheduled job fetch_all_movies *)

start_year == 1970
movies_per_cycle == 10
MAX_DOWNLOADS == 20

Digits == <<"0", "1", "2", "3", "4", "5", "6", "7", "8", "9">>

RECURSIVE str(_)
\* str(n) of a natural number: its decimal digits
str(n) ==
    IF n < 10 THEN <<Digits[n + 1]>>
    ELSE str(n \div 10) \o <<Digits[(n % 10) + 1]>>

RECURSIVE int(_)
\* int(s) of a string of decimal digits
int(s) ==
    LET d == CHOOSE k \in 0..9 : Digits[k + 1] = s[Len(s)]
    IN IF Len(s) = 1 THEN d ELSE 10 * int(SubSeq(s, 1, Len(s) - 1)) + d

\* line 215: the test that decides whether the cycle is advanced
cycle_finished(y, count) == y = start_year /\ count < MAX_DOWNLOADS

\* lines 124-159: read or create the setting, log in.  The run is started
\* (by the scheduler or by hand) in any year from start_year on; a failed
\* login raises APIError, which line 222 catches.
Begin ==
    /\ fpc \in {"idle", "returned"}
    /\ "fetch_cycle" \in DOMAIN settings => int(settings["fetch_cycle"]) < MaxCycle
    /\ \E now \in start_year..(start_year + MaxYears - 1), token_ok \in BOOLEAN :
          LET cycle_setting ==
                  IF "fetch_cycle" \in DOMAIN settings THEN settings
                  ELSE [k \in {"fetch_cycle"} |-> str(0)]
          IN /\ settings' = cycle_setting
             /\ current_year' = now
             /\ current_cycle' = int(cycle_setting["fetch_cycle"])
             /\ years_left' = now
             /\ year' = 0
             /\ movies_to_process' = 0
             /\ downloads_count' = 0
             /\ visited' = {}
             /\ stopped' = IF token_ok THEN "no" ELSE "error"
             /\ fpc' = IF token_ok THEN "for_year" ELSE "returned"
    /\ UNCHANGED <<parserVars, dbVars>>

\* lines 161-175: one turn of the year loop, up to the slice of the movies.
\* discover_popular_movies catches its own errors and returns a list, of
\* which the slice keeps 0 to movies_per_cycle movies.
ForYear ==
    /\ fpc = "for_year"
    /\ IF years_left < start_year
       THEN /\ fpc' = "after_loop"
            /\ UNCHANGED <<years_left, year, movies_to_process, stopped, visited>>
       ELSE /\ year' = years_left
            /\ years_left' = years_left - 1
            /\ IF downloads_count >= MAX_DOWNLOADS
               THEN /\ stopped' = "limit"
                    /\ fpc' = "after_loop"
                    /\ UNCHANGED <<movies_to_process, visited>>
               ELSE /\ visited' = visited \cup {years_left}
                    /\ \E n \in 0..movies_per_cycle :
                          /\ movies_to_process' = n
                          /\ fpc' = IF n = 0 THEN "for_year" ELSE "for_movie"
                    /\ UNCHANGED stopped
    /\ UNCHANGED <<settings, current_year, current_cycle, downloads_count>>
    /\ UNCHANGED <<parserVars, dbVars>>

\* lines 177-186: one turn of the movie loop.  Each tuple carries the year
\* it was asked for (tmdb_client.py line 130), so binding year again gives
\* it the same value.  Of fetch_movie_subtitles only the outcome is kept:
\* True, False, or an exception of the query at line 63, outside its try.
ForMovie ==
    /\ fpc = "for_movie"
    /\ IF movies_to_process = 0
       THEN /\ fpc' = "for_year"
            /\ UNCHANGED <<movies_to_process, downloads_count, stopped>>
       ELSE IF downloads_count >= MAX_DOWNLOADS
            THEN /\ stopped' = "limit"
                 /\ fpc' = "for_year"
                 /\ UNCHANGED <<movies_to_process, downloads_count>>
            ELSE \E result \in {"True", "False", "raise"} :
                    /\ movies_to_process' = movies_to_process - 1
                    /\ downloads_count' =
                           IF result = "True" THEN downloads_count + 1
                           ELSE downloads_count
                    /\ stopped' = IF result = "raise" THEN "error" ELSE stopped
                    /\ fpc' = IF result = "raise" THEN "returned" ELSE "for_movie"
    /\ year' = year
    /\ UNCHANGED <<settings, current_year, current_cycle, years_left, visited>>
    /\ UNCHANGED <<parserVars, dbVars>>

\* lines 215-220: advance the stored cycle, or keep it
AfterLoop ==
    /\ fpc = "after_loop"
    /\ settings' =
           IF cycle_finished(year, downloads_count)
           THEN [settings EXCEPT !["fetch_cycle"] = str(current_cycle + 1)]
           ELSE settings
    /\ fpc' = "returned"
    /\ UNCHANGED <<current_year, current_cycle, years_left, year,
                   movies_to_process, downloads_count, stopped, visited>>
    /\ UNCHANGED <<parserVars, dbVars>>

InitFetch == InitIngest

NextFetch == Begin \/ ForYear \/ ForMovie \/ AfterLoop

SpecFetch == InitFetch /\ [][NextFetch]_vars

-----------------------------------------------------------------------------
(* Vocabulary of the properties *)

Range(f) == {f[i] : i \in DOMAIN f}

\* s contains the substring p
Contains(s, p) == Find(s, p, 1) # 0

\* s contains an HTML-style tag: '<', one or more characters other than '>', '>'
HasTag(s) ==
    \E i \in 1..Len(s) : \E j \in (i + 2)..Len(s) :
        /\ s[i] = "<"
        /\ s[j] = ">"
        /\ \A k \in (i + 1)..(j - 1) : s[k] # ">"

DashSpace == <<"-", " ">>

\* Block i as the parser sees it: its lines, the lines that match the
\* timestamp pattern, the first of them (0 if none), the lines after that one,
\* the text lines joined by single spaces, and the two captured timestamps
View(i) ==
    LET lines == block_lines(blocks[i])
        hits == {j \in 1..Len(lines) : time_pattern_search(lines[j]).found}
        first == IF hits = {} THEN 0 ELSE Min(hits)
        after == IF hits = {} THEN <<>> ELSE SubSeq(lines, first + 1, Len(lines))
    IN [lines |-> lines,
        hits |-> hits,
        first |-> first,
        text_lines |-> after,
        joined |-> join_text(after),
        captured |-> IF hits = {} THEN NoMatch ELSE time_pattern_search(lines[first])]

\* the blocks that produced an entry, and the entry of such a block
Emitting == Range(origin)
EntryOf(i) == parsed_subs[CHOOSE k \in DOMAIN origin : origin[k] = i]

DotToComma(t) == [i \in 1..Len(t) |-> IF t[i] = "." THEN "," ELSE t[i]]

\* t has the form HH:MM:SS,mmm
IsCommaClock(t) ==
    /\ Len(t) = 12
    /\ \A i \in {1, 2, 4, 5, 7, 8, 10, 11, 12} : IsDigit(t[i])
    /\ t[3] = ":" /\ t[6] = ":" /\ t[9] = ","

IsEntry(e) ==
    /\ DOMAIN e = {"start", "end", "text"}
    /\ \A f \in DOMAIN e : e[f] = <<>> \/ DOMAIN e[f] = 1..Len(e[f])

RECURSIVE Flatten(_)
Flatten(ss) == IF ss = <<>> THEN <<>> ELSE Head(ss) \o Flatten(Tail(ss))

-----------------------------------------------------------------------------
\* how far the call has come: the statement reached, then the blocks handled
Stage == CASE pc = "start" -> 0 [] pc = "split" -> 1 [] pc = "loop" -> 2 [] OTHER -> 3

(* C1: for every input, parse_srt never raises and terminates (every step  *)
(* moves to a later statement or to the next block of a fixed list, and    *)
(* the loop ends at the last block), returning a sequence of entries; the  *)
(* entries are those of each block decoded on its own, so a skipped block  *)
(* changes nothing about the entries of the other blocks.                  *)
C1_NeverRaisesBlocksIndependent ==
    /\ [](pc \in {"start", "split", "loop", "done"})
    /\ [][\/ Stage' > Stage
          \/ /\ pc = "loop" /\ pc' = "loop"
             /\ blocks' = blocks
             /\ bi' = bi + 1
             /\ bi' <= Len(blocks) + 1]_vars
    /\ [](pc = "done" =>
            /\ \A k \in DOMAIN parsed_subs : IsEntry(parsed_subs[k])
            /\ parsed_subs = Flatten([i \in 1..Len(blocks) |-> parse_srt(blocks[i])]))

\* a three-block document, mixed line endings, whose middle block is skipped
C1_Witness ==
    /\ pc = "done"
    /\ eol = "MIXED"
    /\ Len(blocks) = 3
    /\ origin = <<1, 3>>
    /\ View(2).hits = {}

(* C2: a block with no index line whose first line is a timestamp line and *)
(* that has at least one text line cleaning to non-empty text yields       *)
(* exactly one entry with that text; "00:00:01,000 --> 00:00:02,000\nHi    *)
(* there" decodes to one entry with text "Hi there".                       *)
C2_MissingIndexYieldsEntry ==
    (/\ pc = "done"
     /\ Len(blocks) = 1
     /\ View(1).first = 1
     /\ View(1).text_lines # <<>>
     /\ clean(View(1).text_lines) # <<>>)
    => (/\ Len(parsed_subs) = 1
        /\ parsed_subs[1].text = clean(View(1).text_lines)
        /\ (document = join(LF, <<TimeComma, HiThere>>)
               => parsed_subs[1].text = HiThere))

(* C3: every entry returned has a text that is non-empty and has no        *)
(* leading or trailing whitespace; a block whose text cleans to the empty  *)
(* string produces no entry.                                               *)
C3_TextNonEmptyTrimmed ==
    pc = "done" =>
       /\ \A k \in DOMAIN parsed_subs :
             LET t == parsed_subs[k].text
             IN t # <<>> /\ ~IsSpace(t[1]) /\ ~IsSpace(t[Len(t)])
       /\ \A i \in 1..Len(blocks) :
             LET v == View(i)
             IN (v.first # 0 /\ strip(sub_tags(v.joined)) = <<>>) => i \notin Emitting

\* one block dropped because its text is only tags and whitespace, another
\* emitted with a text that had a tag and dashes to clean
C3_Witness ==
    /\ pc = "done"
    /\ \E i \in 1..Len(blocks) :
          /\ Len(View(i).lines) >= 3
          /\ View(i).text_lines = <<TagOnly>>
          /\ i \notin Emitting
    /\ \E i \in Emitting :
          /\ HasTag(View(i).joined)
          /\ Contains(View(i).joined, DashSpace)

(* C4: start and end of every entry returned contain no '.', have the form *)
(* HH:MM:SS,mmm, and are the two timestamps captured from the block's      *)
(* timestamp line with a period separator replaced by a comma.             *)
C4_TimestampsUseComma ==
    pc = "done" =>
       \A k \in DOMAIN parsed_subs :
           LET e == parsed_subs[k]
               m == View(origin[k]).captured
           IN /\ ~Contains(e.start, <<".">>) /\ ~Contains(e.end, <<".">>)
              /\ IsCommaClock(e.start) /\ IsCommaClock(e.end)
              /\ m.found
              /\ e.start = DotToComma(m.group1)
              /\ e.end = DotToComma(m.group2)

\* entries from a comma line, a period line and a line with one of each
C4_Witness ==
    /\ pc = "done"
    /\ Len(blocks) = 3
    /\ Emitting = {1, 2, 3}
    /\ \E i, j, l \in Emitting :
          /\ View(i).captured.group1[9] = "," /\ View(i).captured.group2[9] = ","
          /\ View(j).captured.group1[9] = "." /\ View(j).captured.group2[9] = "."
          /\ View(l).captured.group1[9] = "." /\ View(l).captured.group2[9] = ","

(* C5: the entries returned are in the order of their blocks: the blocks   *)
(* are the pieces of the document in document order, each block            *)
(* contributes at most one entry, and an earlier entry comes from an       *)
(* earlier block, whatever the timestamps.                                 *)
C5_OrderPreserved ==
    pc = "done" =>
       /\ join(LF \o LF, blocks) = strip(srt_content)
       /\ Len(origin) = Len(parsed_subs)
       /\ \A k, l \in DOMAIN origin : k < l => origin[k] < origin[l]
       /\ \A k \in DOMAIN origin :
             /\ origin[k] \in 1..Len(blocks)
             /\ parsed_subs[k].text = clean(View(origin[k]).text_lines)
             /\ parsed_subs[k].start = DotToComma(View(origin[k]).captured.group1)

\* three entries, the first with a later start time than the second
C5_Witness ==
    /\ pc = "done"
    /\ Len(parsed_subs) = 3
    /\ parsed_subs[1].start = Clock("0", "5", ",")
    /\ parsed_subs[2].start = Clock("0", "1", ",")
    /\ parsed_subs[3].start = Clock("0", "3", ",")

(* C6: the result does not depend on the line-ending convention: the LF    *)
(* document rewritten with CRLF everywhere, or with CR everywhere, decodes *)
(* to the same entries as the LF document, and decoding the normalized     *)
(* input equals decoding the input.                                        *)
C6_LineEndingIndependent ==
    pc = "done" =>
        /\ eol \in {"LF", "CRLF", "CR"} => parsed_subs = parse_srt(document)
        /\ parsed_subs = parse_srt(normalize_line_endings(WithEol(document, eol)))

\* a CR-only file of two blocks, both decoded
C6_Witness ==
    /\ pc = "done"
    /\ eol = "CR"
    /\ Contains(WithEol(document, eol), CR \o CR)
    /\ ~Contains(WithEol(document, eol), LF)
    /\ Len(parsed_subs) = 2

(* C8 (as claimed): when no text line of a block contains a tag or "- ",   *)
(* the entry's text is the text lines joined by single spaces, trimmed.    *)
C8_CleanLinesUnchanged ==
    pc = "done" =>
       \A i \in Emitting :
           LET v == View(i)
           IN (\A j \in DOMAIN v.text_lines :
                  ~HasTag(v.text_lines[j]) /\ ~Contains(v.text_lines[j], DashSpace))
              => EntryOf(i).text = strip(v.joined)

(* C8 (amended): when the text lines of a block, joined by single spaces,  *)
(* contain no tag and no "- ", the entry's text is the joined text         *)
(* trimmed (and the block is skipped only if that is empty).               *)
C8_CleanJoinedTextUnchanged ==
    pc = "done" =>
       \A i \in 1..Len(blocks) :
           LET v == View(i)
           IN (/\ Len(v.lines) >= 3
               /\ v.first # 0
               /\ ~HasTag(v.joined)
               /\ ~Contains(v.joined, DashSpace)
               /\ strip(v.joined) # <<>>)
              => (i \in Emitting /\ EntryOf(i).text = strip(v.joined))

\* text lines with a dash but no "- " come out unchanged; a blank line and a
\* text line come out joined and trimmed
C8_Witness ==
    /\ pc = "done"
    /\ 1 \in Emitting
    /\ \/ View(1).text_lines = <<TrailDash>> /\ EntryOf(1).text = TrailDash
       \/ View(1).text_lines = <<Blank, HiThere>> /\ EntryOf(1).text = HiThere

(* C9: a block of fewer than 3 lines never produces an entry; the document *)
(* made of an index line and a timestamp line decodes to nothing.          *)
C9_ShortBlockSkipped ==
    pc = "done" =>
       /\ \A i \in Emitting : Len(split(blocks[i], LF)) >= 3
       /\ document = join(LF, <<IndexLine, TimeComma>>) => parsed_subs = <<>>

\* a timestamp line followed by one good text line, skipped for its length
C9_Witness ==
    /\ pc = "done"
    /\ \E i \in 1..Len(blocks) :
          /\ Len(split(blocks[i], LF)) = 2
          /\ View(i).first = 1
          /\ clean(View(i).text_lines) # <<>>
          /\ i \notin Emitting

(* C10: in a block of at least 3 lines the timestamp line is the first     *)
(* line matching the pattern; the text is built from the lines after it    *)
(* only (lines before it are discarded, later matching lines are text); a  *)
(* block with no matching line or no line after the match gives no entry.  *)
C10_FirstMatchSplitsBlock ==
    pc = "done" =>
       \A i \in 1..Len(blocks) :
           LET v == View(i)
           IN Len(v.lines) >= 3 =>
                 IF v.first = 0 \/ v.first = Len(v.lines)
                 THEN i \notin Emitting
                 ELSE /\ i \in Emitting <=> clean(v.text_lines) # <<>>
                      /\ i \in Emitting =>
                            /\ EntryOf(i).text = clean(v.text_lines)
                            /\ EntryOf(i).start = DotToComma(v.captured.group1)
                            /\ EntryOf(i).end = DotToComma(v.captured.group2)

\* an index line before the match is dropped, a second timestamp line after
\* it is text
C10_Witness ==
    /\ pc = "done"
    /\ 1 \in Emitting
    /\ View(1).lines = <<IndexLine, TimeMixed, TimeComma>>
    /\ EntryOf(1).text = TimeComma
    /\ EntryOf(1).start = Clock("0", "5", ",")

(* C7: when parse_srt returns an empty sequence the caller persists        *)
(* nothing: add_entry rejects the upload, fetch_movie_subtitles skips the  *)
(* import, and the database holds no new Movie row and no new Subtitle row.*)
C7_EmptyParsePersistsNothing ==
    [][(last'.parsed /\ Parsed[last'.content] = <<>>)
          => /\ movies' = movies
             /\ subtitles' = subtitles
             /\ last'.op = "add_entry" => last'.outcome = "rejected"
             /\ last'.op = "fetch_movie_subtitles" => last'.outcome = "skipped"]_vars

\* an upload and an import of unparseable files, refused with rows in the database
C7_WitnessRejected ==
    /\ last.op = "add_entry"
    /\ last.outcome = "rejected"
    /\ last.content = join(LF, <<TimeComma, HiThere>>)
    /\ movies # {}
    /\ subtitles # {}

-----------------------------------------------------------------------------
\* t is a clock value: HH:MM:SS, ',' or '.', mmm, and nothing else
IsClock(t) ==
    /\ Len(t) = 12
    /\ \A i \in {1, 2, 4, 5, 7, 8, 10, 11, 12} : IsDigit(t[i])
    /\ t[3] = ":" /\ t[6] = ":" /\ t[9] \in {",", "."}

\* line is two clock values joined by "-->" with optional whitespace
IsTimestampLine(line) ==
    LET sides == split(line, <<"-", "-", ">">>)
    IN /\ Len(sides) = 2
       /\ IsClock(strip(sides[1]))
       /\ IsClock(strip(sides[2]))

(* C11: a line is accepted as a timestamp line only if it holds two clock  *)
(* values of exactly 2-digit hours, minutes and seconds, ',' or '.', and   *)
(* exactly 3 fractional digits, joined by "-->" with optional whitespace:  *)
(* a block produces an entry only if one of its lines is such a line, so a *)
(* block whose clock values have a third hour digit or a fourth fractional *)
(* digit produces none.                                                    *)
C11_OnlyExactClocksAccepted ==
    pc = "done" =>
        \A i \in Emitting :
            \E j \in DOMAIN View(i).lines : IsTimestampLine(View(i).lines[j])

-----------------------------------------------------------------------------
\* the positions of s at which the two characters dash, space begin
DashSpaceAt(s) == {k \in 1..Len(s) : StartsWithAt(s, DashSpace, k)}

(* C12 as stated: every occurrence of dash-space is removed, so no entry   *)
(* returned by parse_srt has a text that contains "- ".                    *)
C12_NoDashSpaceInText ==
    \A k \in DOMAIN parsed_subs : ~Contains(parsed_subs[k].text, DashSpace)

(* C12, amended: every occurrence of dash-space in the joined text is      *)
(* deleted in one pass (the text is shorter by two characters for each),   *)
(* and the text of the entry contains no "- " when the joined text has no  *)
(* two dashes in a row; stated for text without tags.                      *)
C12_DashSpaceDeletedOnce ==
    pc = "done" =>
        \A i \in Emitting :
            LET joined == View(i).joined
                text == EntryOf(i).text
            IN ~HasTag(joined) =>
                /\ Len(text) <= Len(joined) - 2 * Cardinality(DashSpaceAt(joined))
                /\ ~Contains(joined, <<"-", "-">>) => ~Contains(text, DashSpace)

\* an entry was made from a text with two dash-spaces and no double dash
C12_Witness ==
    /\ pc = "done"
    /\ \E i \in Emitting :
        /\ ~HasTag(View(i).joined)
        /\ Cardinality(DashSpaceAt(View(i).joined)) >= 2
        /\ ~Contains(View(i).joined, <<"-", "-">>)
        /\ ~Contains(EntryOf(i).text, DashSpace)

-----------------------------------------------------------------------------
\* the stored fetch_cycle as a number
StoredCycle == int(settings["fetch_cycle"])

\* the year loop of the run ended by exhausting its range, after asking for
\* the movies of every year from the current year down to start_year
LoopFinished == stopped = "no" /\ visited = start_year..current_year

(* C13: a run of fetch_all_movies increments the stored fetch_cycle by     *)
(* exactly one if its year loop finished, having visited every year from   *)
(* the current year down to 1970, and leaves it unchanged if the run       *)
(* stopped early because the download limit was reached or an error        *)
(* occurred.                                                               *)
C13_CycleAdvancesIffLoopFinished ==
    fpc = "returned" =>
        /\ LoopFinished => StoredCycle = current_cycle + 1
        /\ stopped # "no" => StoredCycle = current_cycle

-----------------------------------------------------------------------------
(* C14: after any sequence of add_entry uploads and fetch_movie_subtitles  *)
(* imports, including ones in which a database commit fails and is rolled  *)
(* back, every Movie row of the database has at least one Subtitle row: an *)
(* ingestion stores the movie together with all its parsed entries, or     *)
(* stores nothing.                                                         *)
C14_EveryMovieHasSubtitles ==
    \A m \in movies : \E sub \in subtitles : sub.movie_id = m.id

====
